---- MODULE Spec2Model ----
(***************************************************************************)
(* Model of the envelope layer of rust-mcp-schema (protocol revision       *)
(* 2025_03_26, src/generated_schema/2025_03_26/schema_utils.rs):           *)
(* message-kind classification, Known/Custom payload resolution, envelope  *)
(* construction (from_message), narrowing (as_request ...), and the JSON   *)
(* serialization / deserialization of the four envelope kinds.             *)
(*                                                                         *)
(* JSON values are tagged records.  Scalars carry their text in field s    *)
(* (numbers as decimal text), objects carry a map from keys to JSON values *)
(* in field o, arrays a sequence in field a.                               *)
(***************************************************************************)
EXTENDS Integers, Sequences, FiniteSets, TLC

VARIABLES msg, wire, orig, out

vars == <<msg, wire, orig, out>>

(***************************************************************************)
(* Bounds of the model.                                                    *)
(***************************************************************************)
\* integer request ids range over 1..MaxId
MaxId == 1
\* number of serialize/deserialize round trips one envelope goes through
MaxTrips == 2
\* number of elements of a batch
MaxBatch == 3
\* number of with_message / with_data calls applied to one error
MaxMutations == 2

(***************************************************************************)
(* serde_json::Value                                                       *)
(***************************************************************************)
JNull == [t |-> "null", s |-> ""]
JAbsent == [t |-> "absent", s |-> ""]
\* b is the text "true" or "false"
JBool(b) == [t |-> "bool", s |-> b]
\* text that is not JSON at all: every deserializer fails on it
JInvalid == [t |-> "invalid", s |-> ""]
JNum(n) == [t |-> "num", s |-> n]
JStr(x) == [t |-> "str", s |-> x]
JObj(f) == [t |-> "obj", o |-> f]
JArr(q) == [t |-> "arr", a |-> q]

EmptyMap == [k \in {} |-> JNull]
Put(m, k, v) == [x \in (DOMAIN m) \cup {k} |-> IF x = k THEN v ELSE m[x]]
\* a struct field that is skipped when it is None
PutOpt(m, k, v) == IF v = JAbsent THEN m ELSE Put(m, k, v)
Obj1(k, v) == JObj(Put(EmptyMap, k, v))
Obj2(k1, v1, k2, v2) == JObj(Put(Put(EmptyMap, k1, v1), k2, v2))

\* Value::get(key): Some only for an object that holds the key
Has(value, key) == value.t = "obj" /\ key \in DOMAIN value.o
\* the value under key, JAbsent when get(key) is None
Get(value, key) == IF Has(value, key) THEN value.o[key] ELSE JAbsent
\* value[key].as_str(): Some only when the key holds a JSON string
HasStr(value, key) == Has(value, key) /\ value.o[key].t = "str"

(***************************************************************************)
(* MessageTypes and the classifier                                         *)
(***************************************************************************)
MessageTypes == {"Request", "Response", "Notification", "Error"}

\* faulty variant of detect_message_type: looks at result before error
detect_message_type_ResultFirst(value) ==
    IF Has(value, "id") /\ Has(value, "result") /\ ~Has(value, "method") THEN "Response"
    ELSE IF Has(value, "id") /\ Has(value, "error") THEN "Error"
    ELSE IF ~Has(value, "id") /\ Has(value, "method") THEN "Notification"
    ELSE "Request"

detect_message_type(value) ==
    IF Has(value, "id") /\ Has(value, "error") THEN "Error"
    ELSE IF Has(value, "id")
         THEN IF Has(value, "result") /\ ~Has(value, "method") THEN "Response"
              ELSE IF Has(value, "method") THEN "Request"
              ELSE "Request"
         ELSE IF Has(value, "method") THEN "Notification"
         ELSE "Request"

(***************************************************************************)
(* RequestId: Integer(i64) | String                                        *)
(***************************************************************************)
NoId == [ty |-> "None", s |-> ""]
IntId(i) == [ty |-> "Integer", s |-> ToString(i)]
StrId(x) == [ty |-> "String", s |-> x]
RequestIds == {IntId(i) : i \in 1..MaxId} \cup {StrId(ToString(i)) : i \in 1..MaxId}
OptRequestIds == RequestIds \cup {NoId}

\* faulty variant of RequestId_eq: the variant is not looked at
RequestId_eq_ByText(a, b) == a.s = b.s

\* PartialEq for RequestId: equal payloads of the same variant
RequestId_eq(a, b) ==
    IF a.ty = "String" /\ b.ty = "String" THEN a.s = b.s
    ELSE IF a.ty = "Integer" /\ b.ty = "Integer" THEN a.s = b.s
    ELSE FALSE

\* Hash for RequestId: what is written to the hasher, the prefix 0 and the
\* string, or the prefix 1 and the integer
RequestId_hash(id) == IF id.ty = "String" THEN <<0, id.s>> ELSE <<1, id.s>>

\* Serialize for RequestId (untagged): a JSON number or a JSON string
IdToJson(id) == IF id.ty = "Integer" THEN JNum(id.s) ELSE JStr(id.s)
\* faulty variant of IdFromJson: every id is read as a String
IdFromJson_AlwaysString(v) == [ty |-> "String", s |-> v.s]

\* Deserialize for RequestId (untagged): accepts a JSON integer or string
IdAccepts(v) == v.t \in {"num", "str"}
IdFromJson(v) == IF v.t = "num" THEN [ty |-> "Integer", s |-> v.s]
                 ELSE [ty |-> "String", s |-> v.s]

(***************************************************************************)
(* RpcError                                                                *)
(***************************************************************************)
PARSE_ERROR == -32700
INVALID_REQUEST == -32600
METHOD_NOT_FOUND == -32601
INVALID_PARAMS == -32602
INTERNAL_ERROR == -32603
RpcErrorCodes == {PARSE_ERROR, INVALID_REQUEST, METHOD_NOT_FOUND, INVALID_PARAMS, INTERNAL_ERROR}

RpcError(code, message, data) == [code |-> code, message |-> message, data |-> data]
NoErr == RpcError(0, "", JAbsent)
internal_error == RpcError(INTERNAL_ERROR, "Internal error", JAbsent)
parse_error == RpcError(PARSE_ERROR, "Parse error", JAbsent)
method_not_found == RpcError(METHOD_NOT_FOUND, "Method not found", JAbsent)
\* faulty variant of invalid_params: the code of invalid_request
invalid_params_WrongCode == RpcError(INVALID_REQUEST, "Invalid params", JAbsent)
invalid_params == RpcError(INVALID_PARAMS, "Invalid params", JAbsent)
invalid_request == RpcError(INVALID_REQUEST, "Invalid request", JAbsent)
\* faulty variant of with_message: the data is dropped
with_message_DropsData(e, message) == [e EXCEPT !.message = message, !.data = JAbsent]
\* RpcError::with_message, RpcError::with_data; data is an Option: JAbsent is
\* None, every other JSON value v (JNull too) is Some(v)
with_message(e, message) == [e EXCEPT !.message = message]
with_data(e, data) == [e EXCEPT !.data = data]

(***************************************************************************)
(* SdkError                                                                *)
(***************************************************************************)
CONNECTION_CLOSED == -32000
REQUEST_TIMEOUT == -32001
RESOURCE_NOT_FOUND == -32002
BAD_REQUEST == -32015
SESSION_NOT_FOUND == -32016
SdkErrorCodes ==
    {CONNECTION_CLOSED, REQUEST_TIMEOUT, RESOURCE_NOT_FOUND, BAD_REQUEST, SESSION_NOT_FOUND,
     INVALID_REQUEST, METHOD_NOT_FOUND, INVALID_PARAMS, INTERNAL_ERROR, PARSE_ERROR}

\* Display for SdkErrorCodes
SdkErrorCodes_to_string(code) ==
    CASE code = CONNECTION_CLOSED -> "Connection closed"
      [] code = REQUEST_TIMEOUT -> "Request timeout"
      [] code = INVALID_REQUEST -> "Invalid request"
      [] code = METHOD_NOT_FOUND -> "Method not found"
      [] code = INVALID_PARAMS -> "Invalid params"
      [] code = INTERNAL_ERROR -> "Internal error"
      [] code = PARSE_ERROR -> "Parse Error"
      [] code = RESOURCE_NOT_FOUND -> "Resource not found"
      [] code = BAD_REQUEST -> "Bad request"
      [] code = SESSION_NOT_FOUND -> "Session not found"

SdkError(code, message, data) == [code |-> code, message |-> message, data |-> data]
SdkError_connection_closed ==
    SdkError(CONNECTION_CLOSED, SdkErrorCodes_to_string(CONNECTION_CLOSED), JAbsent)
SdkError_request_timeout(timeout) ==
    SdkError(REQUEST_TIMEOUT, SdkErrorCodes_to_string(REQUEST_TIMEOUT),
             Obj1("timeout", JNum(ToString(timeout))))
SdkError_session_not_found ==
    SdkError(SESSION_NOT_FOUND, SdkErrorCodes_to_string(SESSION_NOT_FOUND), JAbsent)
SdkError_invalid_request ==
    SdkError(INVALID_REQUEST, SdkErrorCodes_to_string(INVALID_REQUEST), JAbsent)
SdkError_method_not_found ==
    SdkError(METHOD_NOT_FOUND, SdkErrorCodes_to_string(METHOD_NOT_FOUND), JAbsent)
SdkError_invalid_params ==
    SdkError(INVALID_PARAMS, SdkErrorCodes_to_string(INVALID_PARAMS), JAbsent)
SdkError_internal_error ==
    SdkError(INTERNAL_ERROR, SdkErrorCodes_to_string(INTERNAL_ERROR), JAbsent)
SdkError_parse_error ==
    SdkError(PARSE_ERROR, SdkErrorCodes_to_string(PARSE_ERROR), JAbsent)
SdkError_resource_not_found ==
    SdkError(RESOURCE_NOT_FOUND, SdkErrorCodes_to_string(RESOURCE_NOT_FOUND), JAbsent)
\* bad_request() takes its message from RESOURCE_NOT_FOUND
SdkError_bad_request ==
    SdkError(BAD_REQUEST, SdkErrorCodes_to_string(RESOURCE_NOT_FOUND), JAbsent)
SdkError_with_message(e, message) == [e EXCEPT !.message = message]
SdkError_with_data(e, data) == [e EXCEPT !.data = data]

(***************************************************************************)
(* Outcomes of an operation: Ok(value), Err(error), or a panic (unwrap on  *)
(* None aborts the caller).                                                *)
(***************************************************************************)
Nothing == [t |-> "absent", s |-> ""]
Ok(v) == [st |-> "Ok", val |-> v, err |-> NoErr]
Err(e) == [st |-> "Err", val |-> Nothing, err |-> e]
Panic == [st |-> "Panic", val |-> Nothing, err |-> NoErr]

(***************************************************************************)
(* Payload Vocabulary (mcp_schema.rs of the 2025_03_26 revision): per side *)
(* and role an ordered list of closed shapes.  A shape has a name, a fixed *)
(* method string (requests and notifications), and either a required       *)
(* params/body field req of JSON type ty, or (req = "") optional params.   *)
(* For results, req = "" is the generic Result, which keeps every key of   *)
(* the object in its extra map.                                            *)
(***************************************************************************)
Shape(name, method, req, ty) == [name |-> name, method |-> method, req |-> req, ty |-> ty]

ClientRequest ==
    << Shape("InitializeRequest", "initialize", "protocolVersion", "str"),
       Shape("PingRequest", "ping", "", ""),
       Shape("CallToolRequest", "tools/call", "name", "str") >>
ServerRequest ==
    << Shape("PingRequest", "ping", "", ""),
       Shape("CreateMessageRequest", "sampling/createMessage", "messages", "arr"),
       Shape("ListRootsRequest", "roots/list", "", "") >>
ClientNotification ==
    << Shape("CancelledNotification", "notifications/cancelled", "requestId", "str"),
       Shape("InitializedNotification", "notifications/initialized", "", "") >>
ServerNotification ==
    << Shape("CancelledNotification", "notifications/cancelled", "requestId", "str"),
       Shape("ToolListChangedNotification", "notifications/tools/list_changed", "", "") >>
ClientResult ==
    << Shape("ListRootsResult", "", "roots", "arr"),
       Shape("Result", "", "", "") >>
ServerResult ==
    << Shape("ListToolsResult", "", "tools", "arr"),
       Shape("Result", "", "", "") >>

Sides == {"Client", "Server"}
Roles == {"Request", "Notification", "Result"}

Vocabulary(side, role) ==
    IF side = "Client"
    THEN (IF role = "Request" THEN ClientRequest
          ELSE IF role = "Notification" THEN ClientNotification ELSE ClientResult)
    ELSE (IF role = "Request" THEN ServerRequest
          ELSE IF role = "Notification" THEN ServerNotification ELSE ServerResult)

ShapeNamed(side, role, name) ==
    LET v == Vocabulary(side, role)
    IN  v[CHOOSE i \in 1..Len(v) : v[i].name = name]

\* Payloads: Known(shape, typed body) | Custom(serde_json::Value)
Known(name, body) == [tag |-> "Known", shape |-> name, body |-> body]
Custom(v) == [tag |-> "Custom", shape |-> "", body |-> v]
NoPayload == [tag |-> "None", shape |-> "", body |-> JAbsent]

\* format!("Expected field {field_name} in struct {struct_name} as const
\* value '{expected}', but got '{value}'"); the two names, which the code
\* puts between grave accents, stand between apostrophes here
ConstMessage(struct_name, field_name, expected, value) ==
    "Expected field '" \o field_name \o "' in struct '" \o struct_name
        \o "' as const value '" \o expected \o "', but got '" \o value \o "'"

\* faulty variant of const_str_validator: every string is accepted
const_str_validator_AnyString(struct_name, field_name, expected, v) ==
    IF v.t # "str" THEN Err(with_message(NoErr, "invalid type: expected a string"))
    ELSE Ok(v)

\* const_str_validator: the value is deserialized as a String, which must
\* equal the constant
const_str_validator(struct_name, field_name, expected, v) ==
    IF v.t # "str" THEN Err(with_message(NoErr, "invalid type: expected a string"))
    ELSE IF v.s = expected THEN Ok(v)
    ELSE Err(with_message(NoErr, ConstMessage(struct_name, field_name, expected, v.s)))

\* one closed request/notification shape deserialized from raw
MethodShapeAccepts(shape, raw) ==
    /\ raw.t = "obj"
    /\ Has(raw, "method")
    /\ const_str_validator(shape.name, "method", shape.method, raw.o["method"]).st = "Ok"
    /\ IF shape.req = ""
       THEN Get(raw, "params").t \in {"absent", "null", "obj"}
       ELSE /\ Get(raw, "params").t = "obj"
            /\ Has(raw.o["params"], shape.req)
            /\ raw.o["params"].o[shape.req].t = shape.ty

\* the typed value of an accepted request/notification: unknown keys of a
\* closed params struct are dropped, an optional params object is kept whole
MethodShapeParse(shape, raw) ==
    IF shape.req = ""
    THEN Known(shape.name, IF Get(raw, "params").t = "obj" THEN raw.o["params"] ELSE JAbsent)
    ELSE Known(shape.name, Obj1(shape.req, raw.o["params"].o[shape.req]))

\* faulty variant of ResultShapeAccepts: the generic Result is closed and
\* accepts the empty object only
ResultShapeAccepts_ClosedResult(shape, raw) ==
    /\ raw.t = "obj"
    /\ IF shape.req = "" THEN DOMAIN raw.o = {}
       ELSE Has(raw, shape.req) /\ raw.o[shape.req].t = shape.ty

\* one closed result shape deserialized from raw
ResultShapeAccepts(shape, raw) ==
    /\ raw.t = "obj"
    /\ shape.req # "" => (Has(raw, shape.req) /\ raw.o[shape.req].t = shape.ty)

ResultShapeParse(shape, raw) ==
    IF shape.req = "" THEN Known(shape.name, raw)
    ELSE Known(shape.name, Obj1(shape.req, raw.o[shape.req]))

\* serde_json::from_value into one closed request/notification shape: the
\* keys are visited in order (method, then params), the first error is returned
MethodShapeDeserialize(shape, raw) ==
    IF raw.t # "obj" THEN Err(with_message(NoErr, "invalid type: expected struct"))
    ELSE IF Has(raw, "method")
            /\ const_str_validator(shape.name, "method", shape.method, raw.o["method"]).st # "Ok"
    THEN const_str_validator(shape.name, "method", shape.method, raw.o["method"])
    ELSE IF ~Has(raw, "method") THEN Err(with_message(NoErr, "missing field method"))
    ELSE IF ~MethodShapeAccepts(shape, raw) THEN Err(with_message(NoErr, "invalid params"))
    ELSE Ok(MethodShapeParse(shape, raw))

ShapeAccepts(role, shape, raw) ==
    IF role = "Result" THEN ResultShapeAccepts(shape, raw) ELSE MethodShapeAccepts(shape, raw)

ShapeParse(role, shape, raw) ==
    IF role = "Result" THEN ResultShapeParse(shape, raw) ELSE MethodShapeParse(shape, raw)

\* the indices of the shapes of a vocabulary that accept raw
Accepting(side, role, raw) ==
    {i \in 1..Len(Vocabulary(side, role)) : ShapeAccepts(role, Vocabulary(side, role)[i], raw)}

Min(S) == CHOOSE i \in S : \A j \in S : i <= j

\* faulty variant of VocabDeserialize: the last variant that deserializes wins
VocabDeserialize_LastWins(side, role, raw) ==
    IF Accepting(side, role, raw) = {}
    THEN Err(with_message(NoErr, "data did not match any variant"))
    ELSE LET last == CHOOSE i \in Accepting(side, role, raw) :
                         \A j \in Accepting(side, role, raw) : i >= j
         IN  Ok(ShapeParse(role, Vocabulary(side, role)[last], raw))

\* Deserialize for the untagged enums ClientRequest, ClientNotification,
\* ClientResult, ServerRequest ...: the first variant that deserializes wins
VocabDeserialize(side, role, raw) ==
    IF Accepting(side, role, raw) = {}
    THEN Err(with_message(NoErr, "data did not match any variant"))
    ELSE Ok(ShapeParse(role, Vocabulary(side, role)[Min(Accepting(side, role, raw))], raw))

\* faulty variant of resolve: the rejection by the vocabulary is returned as
\* an error
resolve_RejectionIsError(side, role, raw) ==
    IF raw = JInvalid
    THEN Err(with_message(NoErr, "expected value"))
    ELSE IF VocabDeserialize(side, role, raw).st = "Ok"
         THEN Ok(VocabDeserialize(side, role, raw).val)
         ELSE Err(with_message(NoErr, "data did not match any variant"))

\* faulty variant of resolve: the custom payload keeps the params only
resolve_ParamsOnly(side, role, raw) ==
    IF raw = JInvalid
    THEN Err(with_message(NoErr, "expected value"))
    ELSE IF VocabDeserialize(side, role, raw).st = "Ok"
         THEN Ok(VocabDeserialize(side, role, raw).val)
         ELSE Ok(Custom(IF Has(raw, "params") THEN Get(raw, "params") ELSE raw))

\* faulty variant of resolve: a value that is no JSON object is an error
resolve_NonObjectIsError(side, role, raw) ==
    IF raw = JInvalid \/ raw.t # "obj"
    THEN Err(with_message(parse_error, "expected an object"))
    ELSE IF VocabDeserialize(side, role, raw).st = "Ok"
         THEN Ok(VocabDeserialize(side, role, raw).val)
         ELSE Ok(Custom(raw))

\* Deserialize for RequestFromClient, NotificationFromClient, ResultFromClient
\* and their server counterparts (the Variant Resolver)
resolve(side, role, raw) ==
    IF raw = JInvalid
    THEN Err(with_message(NoErr, "expected value"))
    ELSE IF VocabDeserialize(side, role, raw).st = "Ok"
         THEN Ok(VocabDeserialize(side, role, raw).val)
         ELSE Ok(Custom(raw))

\* ClientRequest::method(), ClientNotification::method() ...: the fixed method
\* of a Known shape
ShapeMethod(side, role, name) == ShapeNamed(side, role, name).method

\* RequestFromClient::method(), NotificationFromClient::method() ...:
\* request["method"].as_str().unwrap() panics when the value holds no string
payload_method(side, role, p) ==
    IF p.tag = "Known" THEN [st |-> "Ok", m |-> ShapeMethod(side, role, p.shape)]
    ELSE IF HasStr(p.body, "method") THEN [st |-> "Ok", m |-> p.body.o["method"].s]
    ELSE [st |-> "Panic", m |-> ""]

(***************************************************************************)
(* Envelopes: ClientJsonrpcRequest, ClientJsonrpcNotification,             *)
(* ClientJsonrpcResponse, JsonrpcError and their server counterparts, as   *)
(* the variants of ClientMessage / ServerMessage.                          *)
(***************************************************************************)
JSONRPC_VERSION == "2.0"

\* side "Client" is a ClientMessage, side "Server" a ServerMessage
Envelope(side, kind, id, jsonrpc, method, payload, error) ==
    [side |-> side, kind |-> kind, id |-> id, jsonrpc |-> jsonrpc, method |-> method,
     payload |-> payload, error |-> error]
NoMsg == Envelope("", "None", NoId, "", "", NoPayload, NoErr)

JsonrpcRequest_new(side, id, request) ==
    IF payload_method(side, "Request", request).st = "Panic" THEN Panic
    ELSE Ok(Envelope(side, "Request", id, JSONRPC_VERSION,
                     payload_method(side, "Request", request).m, request, NoErr))

\* faulty variant of JsonrpcNotification_new: the method of a Custom payload
\* is not copied into the envelope
JsonrpcNotification_new_KnownMethodOnly(side, notification) ==
    IF payload_method(side, "Notification", notification).st = "Panic" THEN Panic
    ELSE Ok(Envelope(side, "Notification", NoId, JSONRPC_VERSION,
                     IF notification.tag = "Known"
                     THEN payload_method(side, "Notification", notification).m ELSE "",
                     notification, NoErr))

JsonrpcNotification_new(side, notification) ==
    IF payload_method(side, "Notification", notification).st = "Panic" THEN Panic
    ELSE Ok(Envelope(side, "Notification", NoId, JSONRPC_VERSION,
                     payload_method(side, "Notification", notification).m, notification, NoErr))

JsonrpcResponse_new(side, id, result) ==
    Ok(Envelope(side, "Response", id, JSONRPC_VERSION, "", result, NoErr))

JsonrpcError_new(side, error, id) ==
    Ok(Envelope(side, "Error", id, JSONRPC_VERSION, "", NoPayload, error))

\* MessageFromClient / MessageFromServer: a payload without transport metadata
Message(mk, payload, error) == [mk |-> mk, payload |-> payload, error |-> error]
NoMessage == Message("None", NoPayload, NoErr)

\* faulty variant of from_message: a notification is built whether or not a
\* request id was given
from_message_NoNotificationCheck(side, message, request_id) ==
    IF message.mk = "Notification"
    THEN JsonrpcNotification_new(side, message.payload)
    ELSE IF request_id = NoId
    THEN Err(with_message(internal_error, "request_id is None!"))
    ELSE IF message.mk = "Request"
    THEN JsonrpcRequest_new(side, request_id, message.payload)
    ELSE IF message.mk = "Result"
    THEN JsonrpcResponse_new(side, request_id, message.payload)
    ELSE JsonrpcError_new(side, message.error, request_id)

\* FromMessage<MessageFromClient> for ClientMessage,
\* FromMessage<MessageFromServer> for ServerMessage
from_message(side, message, request_id) ==
    IF message.mk = "Request"
    THEN IF request_id = NoId
         THEN Err(with_message(internal_error, "request_id is None!"))
         ELSE JsonrpcRequest_new(side, request_id, message.payload)
    ELSE IF message.mk = "Result"
    THEN IF request_id = NoId
         THEN Err(with_message(internal_error, "request_id is None!"))
         ELSE JsonrpcResponse_new(side, request_id, message.payload)
    ELSE IF message.mk = "Notification"
    THEN IF request_id # NoId
         THEN Err(with_message(internal_error, "request_id expected to be None for Notifications!"))
         ELSE JsonrpcNotification_new(side, message.payload)
    ELSE IF request_id = NoId
         THEN Err(with_message(internal_error, "request_id is None!"))
         ELSE JsonrpcError_new(side, message.error, request_id)

(***************************************************************************)
(* Serialization of the envelopes                                          *)
(***************************************************************************)
\* faulty variant of SerializeParams: of a Custom payload only the value
\* under its "params" key is written
SerializeParams_CustomParamsOnly(side, role, p) ==
    IF p.tag = "Custom" THEN Get(p.body, "params")
    ELSE IF ShapeNamed(side, role, p.shape).req = "" /\ p.body = JAbsent THEN JAbsent
    ELSE p.body

\* the params written for a request or notification payload: a shape with
\* required params always writes them, one with Option params writes them
\* only when Some (JAbsent: the field is not written), a Custom payload is
\* written whole under "params"
SerializeParams(side, role, p) ==
    IF p.tag = "Custom" THEN p.body
    ELSE IF ShapeNamed(side, role, p.shape).req = "" /\ p.body = JAbsent THEN JAbsent
    ELSE p.body

\* Serialize for RpcError: data is skipped when None
SerializeRpcError(e) ==
    JObj(PutOpt(Put(Put(EmptyMap, "code", JNum(ToString(e.code))),
                    "message", JStr(e.message)), "data", e.data))

\* Serialize for ClientJsonrpcRequest / ServerJsonrpcRequest
SerializeRequest(e) ==
    JObj(PutOpt(Put(Put(Put(EmptyMap, "id", IdToJson(e.id)),
                        "jsonrpc", JStr(e.jsonrpc)),
                    "method", JStr(e.method)),
                "params", SerializeParams(e.side, "Request", e.payload)))

\* faulty variant of SerializeNotification: the params are never written
SerializeNotification_NoParams(e) ==
    JObj(Put(Put(EmptyMap, "jsonrpc", JStr(e.jsonrpc)), "method", JStr(e.method)))

\* Serialize for ClientJsonrpcNotification / ServerJsonrpcNotification
SerializeNotification(e) ==
    JObj(PutOpt(Put(Put(EmptyMap, "jsonrpc", JStr(e.jsonrpc)),
                    "method", JStr(e.method)),
                "params", SerializeParams(e.side, "Notification", e.payload)))

\* faulty variant of SerializeResponse: the id is not written
SerializeResponse_NoId(e) ==
    JObj(Put(Put(EmptyMap, "jsonrpc", JStr(e.jsonrpc)), "result", e.payload.body))

\* Serialize for ClientJsonrpcResponse / ServerJsonrpcResponse; the result is
\* an untagged enum, written as the shape's object or the custom value
SerializeResponse(e) ==
    JObj(Put(Put(Put(EmptyMap, "id", IdToJson(e.id)),
                 "jsonrpc", JStr(e.jsonrpc)),
             "result", e.payload.body))

\* Serialize for JsonrpcError
SerializeError(e) ==
    JObj(Put(Put(Put(EmptyMap, "error", SerializeRpcError(e.error)),
                 "id", IdToJson(e.id)),
             "jsonrpc", JStr(e.jsonrpc)))

\* Serialize for ClientMessage / ServerMessage (untagged)
Serialize(e) ==
    IF e.kind = "Request" THEN SerializeRequest(e)
    ELSE IF e.kind = "Notification" THEN SerializeNotification(e)
    ELSE IF e.kind = "Response" THEN SerializeResponse(e)
    ELSE SerializeError(e)

(***************************************************************************)
(* Deserialization of the envelopes                                        *)
(***************************************************************************)
DeErr(text) == Err(with_message(NoErr, text))

\* the numbers a JSON number text may stand for in this model
Numbers == RpcErrorCodes \cup (0..MaxId)
IsInteger(v) == v.t = "num" /\ \E n \in Numbers : ToString(n) = v.s
NumValue(v) == CHOOSE n \in Numbers : ToString(n) = v.s

\* faulty variant of DeserializeRequest: a payload that the vocabulary
\* rejects fails the deserialization of the envelope
DeserializeRequest_PayloadErrors(side, v) ==
    IF v.t # "obj" THEN DeErr("invalid type")
    ELSE IF (DOMAIN v.o) \ {"id", "jsonrpc", "method", "params"} # {} THEN DeErr("unknown field")
    ELSE IF Has(v, "id") /\ ~IdAccepts(v.o["id"]) THEN DeErr("invalid type")
    ELSE IF Has(v, "jsonrpc") /\ v.o["jsonrpc"].t # "str" THEN DeErr("invalid type")
    ELSE IF Has(v, "method") /\ v.o["method"].t # "str" THEN DeErr("invalid type")
    ELSE IF ~Has(v, "id") THEN DeErr("missing field id")
    ELSE IF ~Has(v, "jsonrpc") THEN DeErr("missing field jsonrpc")
    ELSE IF ~Has(v, "method") THEN DeErr("missing field method")
    ELSE LET params == IF Has(v, "params") THEN v.o["params"] ELSE JNull
             req_object == Obj2("method", v.o["method"], "params", params)
             request == VocabDeserialize(side, "Request", req_object)
         IN  IF request.st # "Ok" THEN DeErr("custom")
             ELSE Ok(Envelope(side, "Request", IdFromJson(v.o["id"]), v.o["jsonrpc"].s,
                              v.o["method"].s, request.val, NoErr))

\* Deserialize for ClientJsonrpcRequest / ServerJsonrpcRequest (visit_map)
DeserializeRequest(side, v) ==
    IF v.t # "obj" THEN DeErr("invalid type")
    ELSE IF (DOMAIN v.o) \ {"id", "jsonrpc", "method", "params"} # {} THEN DeErr("unknown field")
    ELSE IF Has(v, "id") /\ ~IdAccepts(v.o["id"]) THEN DeErr("invalid type")
    ELSE IF Has(v, "jsonrpc") /\ v.o["jsonrpc"].t # "str" THEN DeErr("invalid type")
    ELSE IF Has(v, "method") /\ v.o["method"].t # "str" THEN DeErr("invalid type")
    ELSE IF ~Has(v, "id") THEN DeErr("missing field id")
    ELSE IF ~Has(v, "jsonrpc") THEN DeErr("missing field jsonrpc")
    ELSE IF ~Has(v, "method") THEN DeErr("missing field method")
    ELSE LET params == IF Has(v, "params") THEN v.o["params"] ELSE JNull
             req_object == Obj2("method", v.o["method"], "params", params)
             request == resolve(side, "Request", req_object)
         IN  IF request.st # "Ok" THEN DeErr("custom")
             ELSE Ok(Envelope(side, "Request", IdFromJson(v.o["id"]), v.o["jsonrpc"].s,
                              v.o["method"].s, request.val, NoErr))

\* faulty variant of DeserializeNotification: an id key is skipped, whatever
\* it holds
DeserializeNotification_SkipsId(side, v) ==
    IF v.t # "obj" THEN DeErr("invalid type")
    ELSE IF (DOMAIN v.o) \ {"id", "jsonrpc", "method", "params"} # {} THEN DeErr("unknown field")
    ELSE IF Has(v, "jsonrpc") /\ v.o["jsonrpc"].t # "str" THEN DeErr("invalid type")
    ELSE IF Has(v, "method") /\ v.o["method"].t # "str" THEN DeErr("invalid type")
    ELSE IF ~Has(v, "jsonrpc") THEN DeErr("missing field jsonrpc")
    ELSE IF ~Has(v, "method") THEN DeErr("missing field method")
    ELSE LET params == IF Has(v, "params") THEN v.o["params"] ELSE JNull
             req_object == Obj2("method", v.o["method"], "params", params)
             notification == resolve(side, "Notification", req_object)
         IN  IF notification.st # "Ok" THEN DeErr("custom")
             ELSE Ok(Envelope(side, "Notification", NoId, v.o["jsonrpc"].s,
                              v.o["method"].s, notification.val, NoErr))

\* Deserialize for ClientJsonrpcNotification / ServerJsonrpcNotification
DeserializeNotification(side, v) ==
    IF v.t # "obj" THEN DeErr("invalid type")
    ELSE IF (DOMAIN v.o) \ {"jsonrpc", "method", "params"} # {} THEN DeErr("unknown field")
    ELSE IF Has(v, "jsonrpc") /\ v.o["jsonrpc"].t # "str" THEN DeErr("invalid type")
    ELSE IF Has(v, "method") /\ v.o["method"].t # "str" THEN DeErr("invalid type")
    ELSE IF ~Has(v, "jsonrpc") THEN DeErr("missing field jsonrpc")
    ELSE IF ~Has(v, "method") THEN DeErr("missing field method")
    ELSE LET params == IF Has(v, "params") THEN v.o["params"] ELSE JNull
             req_object == Obj2("method", v.o["method"], "params", params)
             notification == resolve(side, "Notification", req_object)
         IN  IF notification.st # "Ok" THEN DeErr("custom")
             ELSE Ok(Envelope(side, "Notification", NoId, v.o["jsonrpc"].s,
                              v.o["method"].s, notification.val, NoErr))

\* Deserialize for ClientJsonrpcResponse / ServerJsonrpcResponse
DeserializeResponse(side, v) ==
    IF v.t # "obj" THEN DeErr("invalid type")
    ELSE IF (DOMAIN v.o) \ {"id", "jsonrpc", "result"} # {} THEN DeErr("unknown field")
    ELSE IF Has(v, "id") /\ ~IdAccepts(v.o["id"]) THEN DeErr("invalid type")
    ELSE IF Has(v, "jsonrpc") /\ v.o["jsonrpc"].t # "str" THEN DeErr("invalid type")
    ELSE IF ~Has(v, "id") THEN DeErr("missing field id")
    ELSE IF ~Has(v, "jsonrpc") THEN DeErr("missing field jsonrpc")
    ELSE IF ~Has(v, "result") THEN DeErr("missing field result")
    ELSE LET result == resolve(side, "Result", v.o["result"])
         IN  IF result.st # "Ok" THEN DeErr("custom")
             ELSE Ok(Envelope(side, "Response", IdFromJson(v.o["id"]), v.o["jsonrpc"].s,
                              "", result.val, NoErr))

\* Deserialize for RpcError: code and message are required, data is optional
\* (absent or null is None), other keys are ignored
RpcErrorAccepts(v) ==
    /\ v.t = "obj"
    /\ Has(v, "code") /\ IsInteger(v.o["code"])
    /\ HasStr(v, "message")
RpcErrorParse(v) ==
    RpcError(NumValue(v.o["code"]), v.o["message"].s,
             IF Get(v, "data") = JNull THEN JAbsent ELSE Get(v, "data"))

\* Deserialize for JsonrpcError: error, id and jsonrpc are required, jsonrpc
\* is validated against the constant "2.0", other keys are ignored
DeserializeError(side, v) ==
    IF v.t # "obj" THEN DeErr("invalid type")
    ELSE IF ~Has(v, "error") THEN DeErr("missing field error")
    ELSE IF ~RpcErrorAccepts(v.o["error"]) THEN DeErr("invalid type")
    ELSE IF ~Has(v, "id") THEN DeErr("missing field id")
    ELSE IF ~IdAccepts(v.o["id"]) THEN DeErr("invalid type")
    ELSE IF ~Has(v, "jsonrpc") THEN DeErr("missing field jsonrpc")
    ELSE IF const_str_validator("JsonrpcError", "jsonrpc", JSONRPC_VERSION, v.o["jsonrpc"]).st # "Ok"
    THEN const_str_validator("JsonrpcError", "jsonrpc", JSONRPC_VERSION, v.o["jsonrpc"])
    ELSE Ok(Envelope(side, "Error", IdFromJson(v.o["id"]), v.o["jsonrpc"].s, "",
                     NoPayload, RpcErrorParse(v.o["error"])))

\* Deserialize for ClientMessage / ServerMessage (untagged): the variants are
\* tried in declaration order Request, Notification, Response, Error
Deserialize(side, v) ==
    IF v = JInvalid THEN DeErr("expected value")
    ELSE IF DeserializeRequest(side, v).st = "Ok" THEN DeserializeRequest(side, v)
    ELSE IF DeserializeNotification(side, v).st = "Ok" THEN DeserializeNotification(side, v)
    ELSE IF DeserializeResponse(side, v).st = "Ok" THEN DeserializeResponse(side, v)
    ELSE IF DeserializeError(side, v).st = "Ok" THEN DeserializeError(side, v)
    ELSE DeErr("data did not match any variant")

\* faulty variant of from_str: text that is JSON but no envelope is reported
\* as an invalid request
from_str_InvalidRequest(side, text) ==
    IF Deserialize(side, text).st = "Ok" THEN Deserialize(side, text)
    ELSE IF text = JInvalid
    THEN Err(with_data(parse_error, Obj1("details", JStr(Deserialize(side, text).err.message))))
    ELSE Err(with_data(invalid_request, Obj1("details", JStr(Deserialize(side, text).err.message))))

\* FromStr for ClientMessage / ServerMessage
from_str(side, text) ==
    IF Deserialize(side, text).st = "Ok" THEN Deserialize(side, text)
    ELSE Err(with_data(parse_error, Obj1("details", JStr(Deserialize(side, text).err.message))))

\* derived Deserialize for MessageFromClient / MessageFromServer (untagged):
\* the variants are tried in declaration order Request, Result,
\* Notification, Error; the first one that deserializes wins
DeserializeMessage(side, v) ==
    IF v = JInvalid THEN DeErr("expected value")
    ELSE IF resolve(side, "Request", v).st = "Ok"
    THEN Ok(Message("Request", resolve(side, "Request", v).val, NoErr))
    ELSE IF resolve(side, "Result", v).st = "Ok"
    THEN Ok(Message("Result", resolve(side, "Result", v).val, NoErr))
    ELSE IF resolve(side, "Notification", v).st = "Ok"
    THEN Ok(Message("Notification", resolve(side, "Notification", v).val, NoErr))
    ELSE IF RpcErrorAccepts(v) THEN Ok(Message("Error", NoPayload, RpcErrorParse(v)))
    ELSE DeErr("data did not match any variant of untagged enum MessageFrom" \o side)

(***************************************************************************)
(* McpMessage / RpcMessage and narrowing                                   *)
(***************************************************************************)
message_type(m) == m.kind
is_request(m) == m.kind = "Request"
is_response(m) == m.kind = "Response"
is_notification(m) == m.kind = "Notification"
is_error(m) == m.kind = "Error"
\* McpMessage for MessageFromClient / MessageFromServer
MessageFrom_message_type(m) == IF m.mk = "Result" THEN "Response" ELSE m.mk
MessageFrom_is_request(m) == m.mk = "Request"
MessageFrom_is_response(m) == m.mk = "Result"
MessageFrom_is_notification(m) == m.mk = "Notification"
\* faulty variant of MessageFrom_is_error: a result counts as an error too
MessageFrom_is_error_AlsoResult(m) == m.mk \in {"Error", "Result"}
MessageFrom_is_error(m) == m.mk = "Error"

\* faulty variant of request_id: an Error envelope reports no id
request_id_NoneForError(m) == IF m.kind \in {"Notification", "Error"} THEN NoId ELSE m.id
request_id(m) == IF m.kind = "Notification" THEN NoId ELSE m.id
jsonrpc(m) == m.jsonrpc

\* format!("Invalid message type, expected: \"{}\" received\"{}\"", ..)
NarrowMessage(expected, actual) ==
    "Invalid message type, expected: \"" \o expected \o "\" received\"" \o actual \o "\""

\* faulty variant of as_kind: the error names the expected kind twice
as_kind_ExpectedTwice(expected, m) ==
    IF m.kind = expected THEN Ok(m)
    ELSE Err(with_message(internal_error, NarrowMessage(expected, expected)))

\* as_request, as_response, as_notification, as_error
as_kind(expected, m) ==
    IF m.kind = expected THEN Ok(m)
    ELSE Err(with_message(internal_error, NarrowMessage(expected, message_type(m))))

(***************************************************************************)
(* ProtocolVersion (protocol_version.rs)                                   *)
(***************************************************************************)
\* the variants of the enum, in declaration order
ProtocolVersion == <<"V2024_11_05", "V2025_03_26", "V2025_06_18", "Draft">>

\* derive(PartialOrd, Ord): variants are ordered by their position in the
\* declaration
ProtocolVersion_cmp(a, b) ==
    LET da == CHOOSE i \in 1..Len(ProtocolVersion) : ProtocolVersion[i] = a
        db == CHOOSE i \in 1..Len(ProtocolVersion) : ProtocolVersion[i] = b
    IN  IF da < db THEN "Less" ELSE IF da = db THEN "Equal" ELSE "Greater"

\* faulty variant of supported_versions: Draft is put first
supported_versions_DraftFirst(include_draft) ==
    IF include_draft THEN <<"Draft", "V2024_11_05", "V2025_03_26", "V2025_06_18">>
    ELSE <<"V2024_11_05", "V2025_03_26", "V2025_06_18">>

supported_versions(include_draft) ==
    IF include_draft
    THEN Append(<<"V2024_11_05", "V2025_03_26", "V2025_06_18">>, "Draft")
    ELSE <<"V2024_11_05", "V2025_03_26", "V2025_06_18">>

(***************************************************************************)
(* Batch wrappers: ClientMessages / ServerMessages hold envelopes (family  *)
(* "envelopes"), MessagesFromClient / MessagesFromServer hold payload      *)
(* messages (family "messages").  Single(x) | Batch(Vec<x>).               *)
(***************************************************************************)
Single(x) == [wrap |-> "Single", items |-> <<x>>]
Batch(v) == [wrap |-> "Batch", items |-> v]

\* the names of the element type and of the wrapper type
ElementName(side, family) ==
    IF family = "envelopes" THEN side \o "Message" ELSE "MessageFrom" \o side
WrapperName(side, family) ==
    IF family = "envelopes" THEN side \o "Messages" ELSE "MessagesFrom" \o side

\* is_request of an element: of an envelope or of a payload message
element_is_request(family, x) ==
    IF family = "envelopes" THEN is_request(x) ELSE x.mk = "Request"

\* faulty variant of includes_request: only the first element is looked at
includes_request_FirstOnly(family, w) ==
    Len(w.items) > 0 /\ element_is_request(family, w.items[1])

\* includes_request: is_request of the sole element, or iter().any(is_request)
includes_request(family, w) ==
    IF w.wrap = "Single" THEN element_is_request(family, w.items[1])
    ELSE \E i \in 1..Len(w.items) : element_is_request(family, w.items[i])

\* faulty variant of as_single: a batch of one element is unwrapped
as_single_UnwrapsOne(side, family, w) ==
    IF w.wrap = "Single" \/ Len(w.items) = 1 THEN Ok(w.items[1])
    ELSE Err(SdkError_with_message(SdkError_internal_error,
             "Error: cannot convert " \o WrapperName(side, family) \o "::Batch to "
                 \o ElementName(side, family) \o "::Single"))

as_single(side, family, w) ==
    IF w.wrap = "Single" THEN Ok(w.items[1])
    ELSE Err(SdkError_with_message(SdkError_internal_error,
             "Error: cannot convert " \o WrapperName(side, family) \o "::Batch to "
                 \o ElementName(side, family) \o "::Single"))

as_batch(side, family, w) ==
    IF w.wrap = "Single"
    THEN Err(SdkError_with_message(SdkError_internal_error,
             "Error: cannot convert " \o ElementName(side, family) \o "::Single to "
                 \o WrapperName(side, family) \o "::Batch"))
    ELSE Ok(w.items)

\* faulty variant of SerializeMessages: the elements are written last first
SerializeMessages_Reversed(w) ==
    IF w.wrap = "Single" THEN Serialize(w.items[1])
    ELSE JArr([i \in 1..Len(w.items) |-> Serialize(w.items[Len(w.items) + 1 - i])])

\* derived Serialize for ClientMessages / ServerMessages (untagged): the
\* envelope itself, or the array of the envelopes
SerializeMessages(w) ==
    IF w.wrap = "Single" THEN Serialize(w.items[1])
    ELSE JArr([i \in 1..Len(w.items) |-> Serialize(w.items[i])])

\* derived Deserialize for ClientMessages / ServerMessages (untagged): Single
\* is tried first, then Batch, which needs every element to deserialize
DeserializeMessages(side, v) ==
    IF v = JInvalid THEN DeErr("expected value")
    ELSE IF Deserialize(side, v).st = "Ok" THEN Ok(Single(Deserialize(side, v).val))
    ELSE IF v.t = "arr" /\ \A i \in 1..Len(v.a) : Deserialize(side, v.a[i]).st = "Ok"
    THEN Ok(Batch([i \in 1..Len(v.a) |-> Deserialize(side, v.a[i]).val]))
    ELSE DeErr("data did not match any variant of untagged enum " \o side \o "Messages")

(***************************************************************************)
(* Inputs of the model                                                     *)
(***************************************************************************)
\* a valid typed body for a shape
BodiesOf(role, shape) ==
    IF shape.req # ""
    THEN {Obj1(shape.req, IF shape.ty = "str" THEN JStr("v") ELSE JArr(<<>>))}
    ELSE IF role = "Result"
    THEN {JObj(EmptyMap), Obj1("custom_key", JStr("v")), Obj1("roots", JArr(<<>>)),
          Obj1("tools", JArr(<<>>))}
    ELSE {JAbsent, JObj(EmptyMap)}

KnownPayloads(side, role) ==
    UNION {{Known(Vocabulary(side, role)[i].name, b) : b \in BodiesOf(role, Vocabulary(side, role)[i])}
           : i \in 1..Len(Vocabulary(side, role))}

\* values an application may wrap as a custom request or notification
CustomMethodValues ==
    {Obj1("method", JStr("my_custom_method")),
     Obj2("method", JStr("my_custom_method"), "params", JObj(EmptyMap)),
     Obj1("method", JStr("ping")),
     Obj1("method", JNum("1")),
     JObj(EmptyMap), JNull, JStr("my_custom_method")}

\* values an application may wrap as a custom result
CustomResultValues ==
    {Obj1("custom_key", JStr("v")), JObj(EmptyMap), JStr("{}"), JNull, JNum("1")}

Payloads(side, role) ==
    KnownPayloads(side, role) \cup
    {Custom(v) : v \in (IF role = "Result" THEN CustomResultValues ELSE CustomMethodValues)}

RpcErrors ==
    {internal_error, method_not_found,
     with_data(with_message(method_not_found, "Error Message!"), Obj1("details", JStr("error detail"))),
     with_data(internal_error, JNull)}

Messages(side) ==
    {Message("Request", p, NoErr) : p \in Payloads(side, "Request")} \cup
    {Message("Notification", p, NoErr) : p \in Payloads(side, "Notification")} \cup
    {Message("Result", p, NoErr) : p \in Payloads(side, "Result")} \cup
    {Message("Error", NoPayload, e) : e \in RpcErrors}

\* raw JSON a peer may send: every combination of the top-level keys
OptionsOf(key) ==
    IF key = "id" THEN {JAbsent, JNum("1"), JStr("1"), JNull}
    ELSE IF key = "jsonrpc" THEN {JAbsent, JStr("2.0"), JStr("1.0")}
    ELSE IF key = "method" THEN {JAbsent, JStr("ping"), JStr("tools/call"), JStr("x/unknownMethod"), JNum("1")}
    ELSE IF key = "params" THEN {JAbsent, JObj(EmptyMap), Obj1("name", JStr("v"))}
    ELSE IF key = "result" THEN {JAbsent, JObj(EmptyMap), Obj1("tools", JArr(<<>>))}
    ELSE IF key = "error" THEN {JAbsent, SerializeRpcError(internal_error)}
    ELSE {JAbsent, JStr("v")}

RawKeys == {"id", "jsonrpc", "method", "params", "result", "error", "extra"}

RawObjects ==
    {JObj([k \in {x \in RawKeys : f[x] # JAbsent} |-> f[k]]) :
        f \in [id : OptionsOf("id"), jsonrpc : OptionsOf("jsonrpc"), method : OptionsOf("method"),
               params : OptionsOf("params"), result : OptionsOf("result"),
               error : OptionsOf("error"), extra : OptionsOf("extra")]}

RawScalars == {JNull, JNum("1"), JStr("ping"), JBool("true")}
RawValues == RawObjects \cup RawScalars \cup {JArr(<<>>), JArr(<<JStr("ping")>>)}

\* texts the transport can hand to from_str: the values above, and text that
\* is not JSON
RawTexts == RawValues \cup {JInvalid}

\* raw payloads handed to the resolver directly
RawPayloads ==
    {JObj([k \in {x \in {"method", "params", "extra", "tools", "roots"} : f[x] # JAbsent} |-> f[k]]) :
        f \in [method : {JAbsent, JStr("ping"), JStr("tools/call"), JStr("initialize"),
                         JStr("notifications/cancelled"), JStr("x/unknownMethod"), JNum("1")},
               params : {JAbsent, JNull, JObj(EmptyMap), Obj1("name", JStr("v")),
                         Obj1("requestId", JStr("v")), JStr("v")},
               extra : {JAbsent, JStr("v")},
               tools : {JAbsent, JArr(<<>>), JStr("v")},
               roots : {JAbsent, JArr(<<>>)}]}
    \cup RawScalars \cup {JArr(<<>>), JArr(<<JStr("ping")>>), JInvalid}

\* the ids that are compared with each other
IdsToCompare == RequestIds \cup {IntId(0), StrId("0"), StrId("abc")}

\* the constructors of the two error types, by type and name
ConstructorNames(catalog) ==
    IF catalog = "RpcError"
    THEN {"parse_error", "invalid_request", "method_not_found", "invalid_params", "internal_error"}
    ELSE {"connection_closed", "request_timeout", "session_not_found", "invalid_request",
          "method_not_found", "invalid_params", "internal_error", "parse_error",
          "resource_not_found", "bad_request"}
Construct(catalog, name) ==
    IF catalog = "RpcError"
    THEN CASE name = "parse_error" -> parse_error
           [] name = "invalid_request" -> invalid_request
           [] name = "method_not_found" -> method_not_found
           [] name = "invalid_params" -> invalid_params
           [] name = "internal_error" -> internal_error
    ELSE CASE name = "connection_closed" -> SdkError_connection_closed
           [] name = "request_timeout" -> SdkError_request_timeout(30)
           [] name = "session_not_found" -> SdkError_session_not_found
           [] name = "invalid_request" -> SdkError_invalid_request
           [] name = "method_not_found" -> SdkError_method_not_found
           [] name = "invalid_params" -> SdkError_invalid_params
           [] name = "internal_error" -> SdkError_internal_error
           [] name = "parse_error" -> SdkError_parse_error
           [] name = "resource_not_found" -> SdkError_resource_not_found
           [] name = "bad_request" -> SdkError_bad_request
\* the arguments handed to with_message and with_data
MutatorArguments ==
    {JStr("Error Message!"), JStr("")} \cup
    {[t |-> "data", d |-> x] : x \in {JAbsent, JNull, Obj1("details", JStr("error detail"))}}

\* sequences over S of length at most n
SeqsUpTo(S, n) == UNION {[1..k -> S] : k \in 0..n}

\* the payload messages and the envelopes that batches are made of
BatchMessages(side) ==
    {Message("Request", Known("PingRequest", JAbsent), NoErr),
     Message("Notification", Custom(Obj1("method", JStr("my_custom_method"))), NoErr),
     Message("Result", Known("Result", JObj(EmptyMap)), NoErr),
     Message("Error", NoPayload, internal_error)}
BatchEnvelopes(side) ==
    {from_message(side, m, IF m.mk = "Notification" THEN NoId ELSE IntId(1)).val :
        m \in BatchMessages(side)}
BatchElements(side, family) ==
    IF family = "envelopes" THEN BatchEnvelopes(side) ELSE BatchMessages(side)
Families == {"envelopes", "messages"}
Wrappers(side, family) ==
    {Single(x) : x \in BatchElements(side, family)}
    \cup {Batch(v) : v \in SeqsUpTo(BatchElements(side, family), MaxBatch)}

\* JSON arrays a peer may send: envelope objects, and elements that are none
RawBatchElements ==
    {Obj2("jsonrpc", JStr("2.0"), "method", JStr("ping")),
     JObj(Put(Put(Put(EmptyMap, "id", JNum("1")), "jsonrpc", JStr("2.0")), "method", JStr("ping"))),
     JObj(Put(Put(Put(EmptyMap, "id", JNum("1")), "jsonrpc", JStr("2.0")), "result", JObj(EmptyMap))),
     JObj(EmptyMap), JNum("1")}
RawBatches == {JArr(q) : q \in SeqsUpTo(RawBatchElements, MaxBatch)}

\* the constant fields of the closed shapes: struct, field, constant
ConstFields ==
    {<<Vocabulary(side, role)[i].name, "method", Vocabulary(side, role)[i].method>> :
        side \in Sides, role \in {"Request", "Notification"}, i \in 1..2}
    \cup {<<"JsonrpcError", "jsonrpc", JSONRPC_VERSION>>}

\* values handed to the validator of a constant field
ConstValues ==
    {JStr("2.0"), JStr("1.0"), JStr("ping"), JStr("tools/call"), JStr("wrong/method"), JNum("1")}

(***************************************************************************)
(* The state machine: an application builds envelopes and narrows them, a  *)
(* transport serializes them to the wire and parses what arrives.          *)
(*   msg   the envelope at hand (NoMsg when none)                          *)
(*   wire  the JSON text on the wire (JAbsent when none)                   *)
(*   orig  the envelope the wire was serialized from (NoMsg when the wire  *)
(*         came from the peer)                                             *)
(*   out   the last operation, its arguments and what it returned          *)
(***************************************************************************)
Out(op, side, role, arg, rid, res, kind, trips) ==
    [op |-> op, side |-> side, role |-> role, arg |-> arg, rid |-> rid, res |-> res,
     kind |-> kind, trips |-> trips]

Init ==
    /\ msg = NoMsg
    /\ wire = JAbsent
    /\ orig = NoMsg
    /\ out = Out("init", "", "", Nothing, NoId, Ok(Nothing), "", 0)

\* the application calls from_message(message, request_id)
Build(side, message, rid) ==
    /\ out.op = "init"
    /\ out' = Out("build", side, message.mk, message, rid, from_message(side, message, rid), "", 0)
    /\ msg' = IF from_message(side, message, rid).st = "Ok"
              THEN from_message(side, message, rid).val ELSE NoMsg
    /\ wire' = JAbsent
    /\ orig' = NoMsg

\* the transport writes the envelope at hand to the wire
Send ==
    /\ msg # NoMsg
    /\ out.trips < MaxTrips
    /\ wire' = Serialize(msg)
    /\ orig' = msg
    /\ out' = Out("serialize", msg.side, "", msg, NoId, Ok(Serialize(msg)), "", out.trips)
    /\ UNCHANGED msg

\* the peer puts raw JSON on the wire
Receive(raw) ==
    /\ out.op = "init"
    /\ wire' = raw
    /\ msg' = NoMsg
    /\ orig' = NoMsg
    /\ out' = Out("receive", "", "", raw, NoId, Ok(Nothing), "", 0)

\* the transport parses the wire as a ClientMessage or a ServerMessage
Parse(side) ==
    /\ wire # JAbsent
    /\ out.op \in {"serialize", "receive", "classify"}
    /\ orig # NoMsg => side = orig.side
    /\ out' = Out("deserialize", side, "", wire, NoId, from_str(side, wire), "", out.trips + 1)
    /\ msg' = IF from_str(side, wire).st = "Ok" THEN from_str(side, wire).val ELSE NoMsg
    /\ UNCHANGED <<wire, orig>>

\* the transport classifies the wire; detect_message_type takes a parsed
\* serde_json::Value, so text that is not JSON never reaches it
Classify ==
    /\ wire # JAbsent
    /\ wire # JInvalid
    /\ out.op \in {"serialize", "receive"}
    /\ out' = Out("classify", out.side, "", wire, NoId, Ok(Nothing), detect_message_type(wire), out.trips)
    /\ UNCHANGED <<msg, wire, orig>>

\* a raw payload is resolved against the vocabulary of (side, role)
Resolve(side, role, raw) ==
    /\ out.op = "init"
    /\ out' = Out("resolve", side, role, raw, NoId, resolve(side, role, raw), "", 0)
    /\ msg' = NoMsg
    /\ wire' = JAbsent
    /\ orig' = NoMsg

\* the application narrows the envelope at hand
Narrow(expected) ==
    /\ msg # NoMsg
    /\ out.op \in {"build", "deserialize"}
    /\ out' = Out("narrow", msg.side, "", msg, NoId, as_kind(expected, msg), expected, out.trips)
    /\ UNCHANGED <<msg, wire, orig>>

\* a constant field of a closed shape is deserialized
Validate(struct_name, field_name, expected, value) ==
    /\ out.op = "init"
    /\ out' = Out("validate", "", field_name,
                  [struct_name |-> struct_name, field_name |-> field_name,
                   expected |-> expected, value |-> value],
                  NoId, const_str_validator(struct_name, field_name, expected, value),
                  struct_name, 0)
    /\ msg' = NoMsg
    /\ wire' = JAbsent
    /\ orig' = NoMsg

\* raw JSON is deserialized into one closed request or notification shape
DeserializeShape(side, role, shape, raw) ==
    /\ out.op = "init"
    /\ out' = Out("shape", side, role, raw, NoId, MethodShapeDeserialize(shape, raw),
                  shape.name, 0)
    /\ msg' = NoMsg
    /\ wire' = JAbsent
    /\ orig' = NoMsg

\* the application narrows a batch wrapper
AsSingle(side, family, w) ==
    /\ out.op = "init"
    /\ out' = Out("as_single", side, family, w, NoId, as_single(side, family, w), "", 0)
    /\ UNCHANGED <<msg, wire, orig>>

AsBatch(side, family, w) ==
    /\ out.op = "init"
    /\ out' = Out("as_batch", side, family, w, NoId, as_batch(side, family, w), "", 0)
    /\ UNCHANGED <<msg, wire, orig>>

\* the transport asks whether a reply is owed
IncludesRequest(side, family, w) ==
    /\ out.op = "init"
    /\ out' = Out("includes_request", side, family, w, NoId,
                  Ok(JBool(IF includes_request(family, w) THEN "true" ELSE "false")), "", 0)
    /\ UNCHANGED <<msg, wire, orig>>

\* the transport writes a wrapper of envelopes to the wire
SendBatch(side, w) ==
    /\ out.op = "init"
    /\ wire' = SerializeMessages(w)
    /\ out' = Out("serialize_batch", side, "envelopes", w, NoId, Ok(SerializeMessages(w)), "", 0)
    /\ UNCHANGED <<msg, orig>>

\* the peer puts a JSON array on the wire
ReceiveBatch(raw) ==
    /\ out.op = "init"
    /\ wire' = raw
    /\ out' = Out("receive_batch", "", "", raw, NoId, Ok(Nothing), "", 0)
    /\ UNCHANGED <<msg, orig>>

\* the transport parses the wire as ClientMessages or ServerMessages
ParseBatch(side) ==
    /\ wire # JAbsent
    /\ out.op \in {"serialize_batch", "receive_batch", "receive"}
    /\ out.op = "serialize_batch" => side = out.side
    /\ out' = Out("deserialize_batch", side, "envelopes", wire, NoId,
                  DeserializeMessages(side, wire), "", out.trips)
    /\ UNCHANGED <<msg, wire, orig>>

\* the application calls a constructor of RpcError or SdkError
ConstructError(catalog, name) ==
    /\ out.op = "init"
    /\ out' = Out("error", "", catalog,
                  [ctor |-> Construct(catalog, name), prev |-> Construct(catalog, name),
                   m |-> "", d |-> JAbsent, set |-> {}],
                  NoId, Ok(Construct(catalog, name)), name, 0)
    /\ UNCHANGED <<msg, wire, orig>>

\* the application calls with_message (a is a string) or with_data (a holds
\* the Option) on the error at hand
Mutate(a) ==
    /\ out.op \in {"error", "mutate"}
    /\ out.trips < MaxMutations
    /\ LET e == out.res.val
           next == IF a.t = "str"
                   THEN (IF out.role = "RpcError" THEN with_message(e, a.s)
                         ELSE SdkError_with_message(e, a.s))
                   ELSE (IF out.role = "RpcError" THEN with_data(e, a.d)
                         ELSE SdkError_with_data(e, a.d))
       IN  out' = Out("mutate", "", out.role,
                      [ctor |-> out.arg.ctor, prev |-> e,
                       m |-> IF a.t = "str" THEN a.s ELSE out.arg.m,
                       d |-> IF a.t = "str" THEN out.arg.d ELSE a.d,
                       set |-> out.arg.set \cup {IF a.t = "str" THEN "message" ELSE "data"}],
                      NoId, Ok(next),
                      IF a.t = "str" THEN "with_message" ELSE "with_data", out.trips + 1)
    /\ UNCHANGED <<msg, wire, orig>>

\* two request ids are compared and hashed
CompareIds(a, b) ==
    /\ out.op = "init"
    /\ out' = Out("compare", "", "", [a |-> a, b |-> b, ha |-> RequestId_hash(a),
                                      hb |-> RequestId_hash(b)],
                  NoId, Ok(JBool(IF RequestId_eq(a, b) THEN "true" ELSE "false")), "", 0)
    /\ UNCHANGED <<msg, wire, orig>>

\* the application asks for the supported protocol versions
SupportedVersions(include_draft) ==
    /\ out.op = "init"
    /\ out' = Out("versions", "", "", JBool(IF include_draft THEN "true" ELSE "false"), NoId,
                  Ok(supported_versions(include_draft)), "", 0)
    /\ UNCHANGED <<msg, wire, orig>>

\* two protocol versions are compared
CompareVersions(a, b) ==
    /\ out.op = "init"
    /\ out' = Out("version_cmp", "", "", [a |-> a, b |-> b], NoId, Ok(JStr(ProtocolVersion_cmp(a, b))),
                  "", 0)
    /\ UNCHANGED <<msg, wire, orig>>

\* the application asks the value at hand for its kind: the envelope, or the
\* payload message that was handed to from_message
Inspect(family) ==
    /\ out.op \in {"build", "deserialize"}
    /\ IF family = "envelopes" THEN msg # NoMsg ELSE out.op = "build"
    /\ out' = IF family = "envelopes"
              THEN Out("inspect", msg.side, family, msg, NoId,
                       Ok([is_request |-> is_request(msg), is_response |-> is_response(msg),
                           is_notification |-> is_notification(msg), is_error |-> is_error(msg)]),
                       message_type(msg), out.trips)
              ELSE Out("inspect", out.side, family, out.arg, NoId,
                       Ok([is_request |-> MessageFrom_is_request(out.arg),
                           is_response |-> MessageFrom_is_response(out.arg),
                           is_notification |-> MessageFrom_is_notification(out.arg),
                           is_error |-> MessageFrom_is_error(out.arg)]),
                       MessageFrom_message_type(out.arg), out.trips)
    /\ UNCHANGED <<msg, wire, orig>>

\* raw JSON is deserialized as a MessageFromClient or a MessageFromServer
ParseMessage(side, raw) ==
    /\ out.op = "init"
    /\ out' = Out("deserialize_message", side, "", raw, NoId, DeserializeMessage(side, raw),
                  IF DeserializeMessage(side, raw).st = "Ok"
                  THEN MessageFrom_message_type(DeserializeMessage(side, raw).val) ELSE "",
                  0)
    /\ UNCHANGED <<msg, wire, orig>>

\* the values at hand are dropped
Reset ==
    /\ out.op # "init"
    /\ msg' = NoMsg
    /\ wire' = JAbsent
    /\ orig' = NoMsg
    /\ out' = Out("init", "", "", Nothing, NoId, Ok(Nothing), "", 0)

Next ==
    \/ \E side \in Sides : \E message \in Messages(side) : \E rid \in OptRequestIds :
          Build(side, message, rid)
    \/ Send
    \/ \E raw \in RawTexts : Receive(raw)
    \/ \E side \in Sides : Parse(side)
    \/ Classify
    \/ \E side \in Sides : \E role \in Roles : \E raw \in RawPayloads : Resolve(side, role, raw)
    \/ \E expected \in MessageTypes : Narrow(expected)
    \/ \E family \in Families : Inspect(family)
    \/ \E side \in Sides : \E raw \in RawPayloads \cup {SerializeRpcError(e) : e \in RpcErrors} :
          ParseMessage(side, raw)
    \/ \E c \in ConstFields : \E value \in ConstValues : Validate(c[1], c[2], c[3], value)
    \/ \E side \in Sides : \E role \in {"Request", "Notification"} :
          \E i \in 1..Len(Vocabulary(side, role)) : \E raw \in RawPayloads \ {JInvalid} :
              DeserializeShape(side, role, Vocabulary(side, role)[i], raw)
    \/ \E side \in Sides : \E family \in Families : \E w \in Wrappers(side, family) :
          AsSingle(side, family, w)
    \/ \E side \in Sides : \E family \in Families : \E w \in Wrappers(side, family) :
          AsBatch(side, family, w)
    \/ \E side \in Sides : \E family \in Families : \E w \in Wrappers(side, family) :
          IncludesRequest(side, family, w)
    \/ \E side \in Sides : \E w \in Wrappers(side, "envelopes") : SendBatch(side, w)
    \/ \E raw \in RawBatches : ReceiveBatch(raw)
    \/ \E side \in Sides : ParseBatch(side)
    \/ \E catalog \in {"RpcError", "SdkError"} : \E name \in ConstructorNames(catalog) :
          ConstructError(catalog, name)
    \/ \E a \in MutatorArguments : Mutate(a)
    \/ \E a \in IdsToCompare : \E b \in IdsToCompare : CompareIds(a, b)
    \/ \E include_draft \in BOOLEAN : SupportedVersions(include_draft)
    \/ \E i \in 1..Len(ProtocolVersion) : \E j \in 1..Len(ProtocolVersion) :
          CompareVersions(ProtocolVersion[i], ProtocolVersion[j])
    \/ Reset

Spec == Init /\ [][Next]_vars

(***************************************************************************)
(* Claims                                                                  *)
(***************************************************************************)
\* key k is present at the top level of JSON value v
Present(v, k) == v.t = "obj" /\ k \in DOMAIN v.o

\* C1: for every JSON value the classifier returns, in strict precedence,
\* Error if id and error are present; else Response if id and result are
\* present and method is absent; else Request if id and method are present;
\* else Notification if id is absent and method is present; else Request.
\* It depends on the presence of these four keys only and always returns a kind.
C1_ClassifierPrecedence ==
    out.op = "classify" =>
        /\ out.kind \in MessageTypes
        /\ LET id == Present(out.arg, "id")
               error == Present(out.arg, "error")
               result == Present(out.arg, "result")
               method == Present(out.arg, "method")
           IN  out.kind = CASE id /\ error -> "Error"
                            [] id /\ ~error /\ result /\ ~method -> "Response"
                            [] id /\ ~error /\ method -> "Request"
                            [] ~id /\ method -> "Notification"
                            [] OTHER -> "Request"

\* C1 witness: the empty object was classified, as Request by default
C1_Witness ==
    out.op = "classify" /\ out.arg = JObj(EmptyMap) /\ out.kind = "Request"

\* the id rule of from_message is broken by the call recorded in out
IdRuleBroken ==
    \/ out.arg.mk \in {"Request", "Result", "Error"} /\ out.rid = NoId
    \/ out.arg.mk = "Notification" /\ out.rid # NoId

\* C2: from_message fails with an Internal error (code -32603) and produces
\* no envelope whenever a Request, Result or Error payload comes without a
\* request id, or a Notification payload comes with one, for every payload,
\* Known or Custom, in both directions.
C2_BuildRejectsBrokenIdRule ==
    (out.op = "build" /\ IdRuleBroken) =>
        /\ out.res.st = "Err"
        /\ out.res.err.code = -32603
        /\ msg = NoMsg

\* C2 witness: a custom request that carries no method string was handed to
\* from_message without an id, and was rejected with the Internal error
C2_Witness ==
    /\ out.op = "build"
    /\ out.arg.mk = "Request" /\ out.arg.payload = Custom(JObj(EmptyMap))
    /\ out.rid = NoId
    /\ out.res.st = "Err"

\* C3 (as claimed): from_message(Request(p), Some(id)) returns Ok with a
\* Request envelope and from_message(Notification(p), None) returns Ok with a
\* Notification envelope for every payload p, Known or Custom holding any
\* JSON value; neither call returns an error or aborts.
C3_BuildAlwaysSucceeds ==
    (/\ out.op = "build"
     /\ \/ out.arg.mk = "Request" /\ out.rid # NoId
        \/ out.arg.mk = "Notification" /\ out.rid = NoId) =>
        /\ out.res.st = "Ok"
        /\ out.res.val.kind = out.arg.mk

\* the last operation parsed a wire that was serialized from envelope orig
RoundTripDone == out.op = "deserialize" /\ orig # NoMsg

C5_ClassifySerialized ==
    (out.op = "classify" /\ orig # NoMsg) => out.kind = orig.kind

\* C5 witness: an Error envelope made by from_message was serialized and
\* classified
C5_Witness ==
    /\ out.op = "classify" /\ out.trips = 0
    /\ orig # NoMsg /\ orig.kind = "Error"
    /\ out.kind = "Error"

\* the resolver was handed a JSON value
Resolved == out.op = "resolve" /\ out.arg # JInvalid

\* C6: resolve returns Known(s) if and only if at least one vocabulary shape
\* accepts the raw JSON, and s is then the first accepting shape in
\* declaration order; if no shape accepts it returns Custom; the rejection
\* of a candidate is never surfaced as an error.
C6_ResolveFirstAccepting ==
    Resolved =>
        LET shapes == Vocabulary(out.side, out.role)
            accepting == {i \in 1..Len(shapes) : ShapeAccepts(out.role, shapes[i], out.arg)}
        IN  /\ out.res.st = "Ok"
            /\ out.res.val.tag \in {"Known", "Custom"}
            /\ out.res.val.tag = "Known" <=> accepting # {}
            /\ out.res.val.tag = "Known" =>
                  \E i \in accepting :
                      /\ \A j \in accepting : i <= j
                      /\ out.res.val = ShapeParse(out.role, shapes[i], out.arg)

\* C6 witness: {"roots": []} is accepted by ListRootsResult and by the
\* generic Result, and was resolved to ListRootsResult, the first of them
C6_Witness ==
    /\ Resolved
    /\ out.side = "Client" /\ out.role = "Result"
    /\ out.arg = Obj1("roots", JArr(<<>>))
    /\ Cardinality(Accepting("Client", "Result", out.arg)) = 2
    /\ out.res = Ok(Known("ListRootsResult", out.arg))

\* C7: when no vocabulary shape accepts a raw JSON object, resolve returns
\* Custom holding exactly the JSON it was given, as a success.
C7_CustomKeepsJson ==
    (Resolved /\ out.arg.t = "obj" /\ Accepting(out.side, out.role, out.arg) = {}) =>
        out.res = Ok(Custom(out.arg))

\* C7 witness: {"method": "x/unknownMethod", "params": {}} was resolved as a
\* request and came back as Custom holding the same object
C7_Witness ==
    /\ Resolved
    /\ out.role = "Request"
    /\ out.arg = Obj2("method", JStr("x/unknownMethod"), "params", JObj(EmptyMap))
    /\ out.res = Ok(Custom(out.arg))

\* a JSON value that is a number, a string, a boolean or null
IsScalar(v) == v.t \in {"num", "str", "bool", "null"}

\* C8 (as claimed): when the raw value is not a JSON object (a number,
\* string, boolean, null or array) resolution fails with a Parse-kind error
\* and returns neither Known nor Custom.
C8_NonObjectIsParseError ==
    (Resolved /\ out.arg.t # "obj") =>
        (out.res.st = "Err" /\ out.res.err.code = -32700)

\* C8 (amended): when the raw value is a JSON number, string, boolean or
\* null, resolution succeeds and returns Custom holding that value unchanged;
\* resolution fails only when its input cannot be read as a JSON value.
C8_NonObjectIsCustom ==
    out.op = "resolve" =>
        /\ IsScalar(out.arg) => out.res = Ok(Custom(out.arg))
        /\ out.res.st = "Err" <=> out.arg = JInvalid

\* C8 witness: the number 1 was resolved and came back as Custom(1)
C8_Witness ==
    out.op = "resolve" /\ out.arg = JNum("1") /\ out.res = Ok(Custom(JNum("1")))

\* C9: as_request, as_response, as_notification and as_error return Ok with
\* the envelope unchanged exactly when the message is of the requested kind;
\* for each of the other three kinds they return an Internal error (code
\* -32603) whose message names the expected kind and the actual kind.
C9_NarrowingTotal ==
    out.op = "narrow" =>
        /\ out.res.st \in {"Ok", "Err"}
        /\ out.res.st = "Ok" <=> out.arg.kind = out.kind
        /\ out.res.st = "Ok" => out.res.val = out.arg
        /\ out.res.st = "Err" =>
              /\ out.res.err.code = -32603
              /\ \E actual \in MessageTypes \ {out.kind} :
                    /\ actual = out.arg.kind
                    /\ out.res.err.message =
                          "Invalid message type, expected: \"" \o out.kind
                              \o "\" received\"" \o actual \o "\""

\* C9 witness: as_request was called on an Error envelope and failed
C9_Witness ==
    /\ out.op = "narrow" /\ out.kind = "Request"
    /\ out.arg.kind = "Error"
    /\ out.res.st = "Err"

\* C10 (as claimed): the jsonrpc field of every envelope, made by a
\* constructor, by from_message or by deserialization, is the literal "2.0";
\* a JSON message with another jsonrpc string is never accepted as an
\* envelope of any of the four kinds.
C10_JsonrpcIsAlways20 ==
    /\ msg # NoMsg => jsonrpc(msg) = "2.0"
    /\ (out.op = "deserialize" /\ Present(out.arg, "jsonrpc")
            /\ out.arg.o["jsonrpc"] # JStr("2.0")) => out.res.st = "Err"

\* the envelope kind that from_message makes of a payload kind
KindOfPayload(mk) == IF mk = "Result" THEN "Response" ELSE mk

\* C11: for every envelope returned by a successful from_message or by
\* deserialization, request_id() is Some(id) when the kind is Request,
\* Response or Error and None when the kind is Notification; after
\* from_message the id is exactly the one passed in and the envelope kind is
\* the kind of the payload passed in.
C11_IdTiedToKind ==
    /\ (out.op \in {"build", "deserialize"} /\ out.res.st = "Ok") =>
          /\ out.res.val.kind \in {"Request", "Response", "Error"} =>
                /\ request_id(out.res.val) # NoId
                /\ request_id(out.res.val).ty \in {"Integer", "String"}
          /\ out.res.val.kind = "Notification" => request_id(out.res.val) = NoId
    /\ (out.op = "build" /\ out.res.st = "Ok") =>
          /\ out.res.val.kind = KindOfPayload(out.arg.mk)
          /\ out.res.val.kind # "Notification" => request_id(out.res.val) = out.rid

\* C11 witness: an Error envelope was deserialized from the wire and
\* reports the id it was sent with
C11_Witness ==
    /\ out.op = "deserialize" /\ out.res.st = "Ok"
    /\ out.res.val.kind = "Error"
    /\ Present(out.arg, "id")
    /\ request_id(out.res.val) # NoId
    /\ IdToJson(request_id(out.res.val)) = out.arg.o["id"]

\* C12: const_str_validator returns Ok exactly when the deserialized string
\* equals the expected constant; for any other string the deserialization of
\* the closed shape fails with an error whose message names the struct, the
\* field, the expected value and the actual value.
C12_ConstantFieldValidation ==
    /\ (out.op = "validate" /\ out.arg.value.t = "str") =>
          /\ out.res.st \in {"Ok", "Err"}
          /\ out.res.st = "Ok" <=> out.arg.value.s = out.arg.expected
          /\ out.res.st = "Ok" => out.res.val = out.arg.value
          /\ out.res.st = "Err" =>
                out.res.err.message =
                    "Expected field '" \o out.arg.field_name \o "' in struct '"
                        \o out.arg.struct_name \o "' as const value '" \o out.arg.expected
                        \o "', but got '" \o out.arg.value.s \o "'"
    /\ (/\ out.op = "shape"
        /\ Present(out.arg, "method") /\ out.arg.o["method"].t = "str"
        /\ out.arg.o["method"].s # ShapeNamed(out.side, out.role, out.kind).method) =>
          /\ out.res.st = "Err"
          /\ out.res.err.message =
                "Expected field 'method' in struct '" \o out.kind \o "' as const value '"
                    \o ShapeNamed(out.side, out.role, out.kind).method
                    \o "', but got '" \o out.arg.o["method"].s \o "'"

\* C12 witness: a request with method "ping" and otherwise valid params was
\* deserialized into CallToolRequest and rejected for its method
C12_Witness ==
    /\ out.op = "shape" /\ out.kind = "CallToolRequest"
    /\ out.arg = Obj2("method", JStr("ping"), "params", Obj1("name", JStr("v")))
    /\ out.res.st = "Err"
    /\ out.res.err.message =
          "Expected field 'method' in struct 'CallToolRequest' as const value 'tools/call', but got 'ping'"

\* C13: for ClientMessages, ServerMessages, MessagesFromClient and
\* MessagesFromServer, Single(e).as_single() returns Ok(e) and
\* Batch(v).as_batch() returns Ok(v) with the elements in the same order,
\* while Single(e).as_batch() and Batch(v).as_single() return an
\* arity-mismatch error for every v, a batch of one element and the empty
\* batch included.
C13_BatchNarrowing ==
    /\ (out.op = "as_single" /\ out.arg.wrap = "Single") => out.res = Ok(out.arg.items[1])
    /\ (out.op = "as_batch" /\ out.arg.wrap = "Batch") =>
          /\ out.res.st = "Ok"
          /\ Len(out.res.val) = Len(out.arg.items)
          /\ \A i \in 1..Len(out.arg.items) : out.res.val[i] = out.arg.items[i]
    /\ (out.op = "as_single" /\ out.arg.wrap = "Batch") =>
          /\ out.res.st = "Err"
          /\ out.res.err.code = -32603
          /\ out.res.err.message \in
                {"Error: cannot convert ClientMessages::Batch to ClientMessage::Single",
                 "Error: cannot convert ServerMessages::Batch to ServerMessage::Single",
                 "Error: cannot convert MessagesFromClient::Batch to MessageFromClient::Single",
                 "Error: cannot convert MessagesFromServer::Batch to MessageFromServer::Single"}
    /\ (out.op = "as_batch" /\ out.arg.wrap = "Single") =>
          /\ out.res.st = "Err"
          /\ out.res.err.code = -32603
          /\ out.res.err.message \in
                {"Error: cannot convert ClientMessage::Single to ClientMessages::Batch",
                 "Error: cannot convert ServerMessage::Single to ServerMessages::Batch",
                 "Error: cannot convert MessageFromClient::Single to MessagesFromClient::Batch",
                 "Error: cannot convert MessageFromServer::Single to MessagesFromServer::Batch"}

\* C13 witness: as_single was called on a batch of exactly one payload
\* message and failed
C13_Witness ==
    /\ out.op = "as_single" /\ out.role = "messages"
    /\ out.arg.wrap = "Batch" /\ Len(out.arg.items) = 1
    /\ out.res.st = "Err"

\* the kind of an element of a batch wrapper
ElementKind(x) == IF "kind" \in DOMAIN x THEN x.kind ELSE KindOfPayload(x.mk)

\* C14: includes_request returns true if and only if the sole element of a
\* Single is Request-kind or at least one element of a Batch is
\* Request-kind; it is false for an empty batch and for a batch of
\* Notifications, Responses and Errors only, whatever the order.
C14_IncludesRequest ==
    out.op = "includes_request" =>
        (out.res.val = JBool("true") <=>
            \E i \in 1..Len(out.arg.items) : ElementKind(out.arg.items[i]) = "Request")
        /\ out.res.val \in {JBool("true"), JBool("false")}

\* C14 witness: a batch of a Notification, a Request and a Response, in
\* this order, includes a request
C14_Witness ==
    /\ out.op = "includes_request" /\ out.arg.wrap = "Batch"
    /\ Len(out.arg.items) = 3
    /\ ElementKind(out.arg.items[1]) = "Notification"
    /\ ElementKind(out.arg.items[2]) = "Request"
    /\ ElementKind(out.arg.items[3]) = "Response"
    /\ out.res.val = JBool("true")

\* v is a JSON object that deserializes as an envelope of the side
IsEnvelopeObject(side, v) == v.t = "obj" /\ Deserialize(side, v).st = "Ok"

\* C15: a bare envelope object deserializes to Single holding that
\* envelope; a top-level JSON array of n envelope objects deserializes to
\* Batch holding exactly n envelopes in the order of the array; a Batch is
\* serialized as the array of its elements in the same order.
C15_BatchSerde ==
    /\ (out.op = "deserialize_batch" /\ IsEnvelopeObject(out.side, out.arg)) =>
          /\ out.res.st = "Ok"
          /\ out.res.val.wrap = "Single"
          /\ out.res.val.items = <<Deserialize(out.side, out.arg).val>>
    /\ (/\ out.op = "deserialize_batch" /\ out.arg.t = "arr"
        /\ \A i \in 1..Len(out.arg.a) : IsEnvelopeObject(out.side, out.arg.a[i])) =>
          /\ out.res.st = "Ok"
          /\ out.res.val.wrap = "Batch"
          /\ Len(out.res.val.items) = Len(out.arg.a)
          /\ \A i \in 1..Len(out.arg.a) :
                out.res.val.items[i] = Deserialize(out.side, out.arg.a[i]).val
    /\ (out.op = "serialize_batch" /\ out.arg.wrap = "Batch") =>
          /\ out.res.val.t = "arr"
          /\ Len(out.res.val.a) = Len(out.arg.items)
          /\ \A i \in 1..Len(out.arg.items) : out.res.val.a[i] = Serialize(out.arg.items[i])

\* C15 witness: the array of a notification object and a request object was
\* deserialized to the batch of a Notification and a Request, in this order
C15_Witness ==
    /\ out.op = "deserialize_batch" /\ out.arg.t = "arr"
    /\ Len(out.arg.a) = 2
    /\ out.res.st = "Ok" /\ out.res.val.wrap = "Batch"
    /\ Len(out.res.val.items) = 2
    /\ out.res.val.items[1].kind = "Notification"
    /\ out.res.val.items[2].kind = "Request"

\* C16: the RpcError constructors parse_error, invalid_request,
\* method_not_found, invalid_params and internal_error return code -32700,
\* -32600, -32601, -32602 and -32603, each with its standard default message
\* and no data; the SDK codes ConnectionClosed, RequestTimeout,
\* ResourceNotFound, BadRequest and SessionNotFound are -32000, -32001,
\* -32002, -32015 and -32016; no two members of one catalog share a code.
C16_ErrorCatalogs ==
    /\ (out.op = "error" /\ out.role = "RpcError") =>
          /\ out.res.val.data = JAbsent
          /\ <<out.res.val.code, out.res.val.message>> =
                CASE out.kind = "parse_error" -> <<-32700, "Parse error">>
                  [] out.kind = "invalid_request" -> <<-32600, "Invalid request">>
                  [] out.kind = "method_not_found" -> <<-32601, "Method not found">>
                  [] out.kind = "invalid_params" -> <<-32602, "Invalid params">>
                  [] out.kind = "internal_error" -> <<-32603, "Internal error">>
    /\ (out.op = "error" /\ out.role = "SdkError") =>
          /\ out.kind = "connection_closed" => out.res.val.code = -32000
          /\ out.kind = "request_timeout" => out.res.val.code = -32001
          /\ out.kind = "resource_not_found" => out.res.val.code = -32002
          /\ out.kind = "bad_request" => out.res.val.code = -32015
          /\ out.kind = "session_not_found" => out.res.val.code = -32016
    /\ out.op = "error" =>
          \A other \in ConstructorNames(out.role) \ {out.kind} :
              Construct(out.role, other).code # out.res.val.code

\* C16 witness: RpcError::invalid_params() was called and returned -32602
C16_Witness ==
    /\ out.op = "error" /\ out.role = "RpcError" /\ out.kind = "invalid_params"
    /\ out.res.val.code = -32602

\* C17: with_message(m) sets the message to m and leaves code and data
\* unchanged, with_data(d) sets the data to d and leaves code and message
\* unchanged; applied in either order after any constructor of RpcError or
\* SdkError, the error has the constructor's code, message m and data d.
C17_MutatorsFrame ==
    out.op = "mutate" =>
        LET e == out.res.val
        IN  /\ e.code = out.arg.prev.code
            /\ e.code = out.arg.ctor.code
            /\ out.kind = "with_message" =>
                  (e.message = out.arg.m /\ e.data = out.arg.prev.data)
            /\ out.kind = "with_data" =>
                  (e.data = out.arg.d /\ e.message = out.arg.prev.message)
            /\ e.message = (IF "message" \in out.arg.set THEN out.arg.m
                            ELSE out.arg.ctor.message)
            /\ e.data = (IF "data" \in out.arg.set THEN out.arg.d ELSE out.arg.ctor.data)

\* C17 witness: with_data(Some(details)) and then with_message were applied
\* to RpcError::method_not_found()
C17_Witness ==
    /\ out.op = "mutate" /\ out.role = "RpcError" /\ out.kind = "with_message"
    /\ out.arg.ctor = method_not_found
    /\ out.arg.set = {"message", "data"}
    /\ out.res.val = RpcError(-32601, "Error Message!", Obj1("details", JStr("error detail")))

\* C18: two request ids are equal if and only if they are of the same
\* variant and hold equal values; an Integer id and a String id are never
\* equal, even when the string is the decimal text of the integer; two equal
\* ids produce the same hash.
C18_RequestIdEquality ==
    out.op = "compare" =>
        LET a == out.arg.a
            b == out.arg.b
            equal == out.res.val = JBool("true")
        IN  /\ out.res.val \in {JBool("true"), JBool("false")}
            /\ equal <=> (a.ty = b.ty /\ a.s = b.s)
            /\ a.ty # b.ty => ~equal
            /\ equal => out.arg.ha = out.arg.hb

\* C18 witness: Integer(1) was compared with String("1") and found different
C18_Witness ==
    /\ out.op = "compare"
    /\ out.arg.a = IntId(1) /\ out.arg.b = StrId("1")
    /\ out.res.val = JBool("false")

\* the place of a protocol version in the order the claim states
VersionRank(v) ==
    CASE v = "V2024_11_05" -> 1 [] v = "V2025_03_26" -> 2
      [] v = "V2025_06_18" -> 3 [] v = "Draft" -> 4

\* C19: ProtocolVersion is a closed set totally ordered by V2024_11_05 <
\* V2025_03_26 < V2025_06_18 < Draft; supported_versions(include_draft)
\* returns on every call the three dated versions in ascending order,
\* followed by Draft if and only if include_draft is true, without
\* duplicates.
C19_ProtocolVersions ==
    /\ out.op = "version_cmp" =>
          /\ {out.arg.a, out.arg.b} \subseteq {"V2024_11_05", "V2025_03_26", "V2025_06_18", "Draft"}
          /\ out.res.val.s = "Less" <=> VersionRank(out.arg.a) < VersionRank(out.arg.b)
          /\ out.res.val.s = "Equal" <=> out.arg.a = out.arg.b
          /\ out.res.val.s = "Greater" <=> VersionRank(out.arg.a) > VersionRank(out.arg.b)
    /\ out.op = "versions" =>
          LET v == out.res.val
          IN  /\ Len(v) = (IF out.arg = JBool("true") THEN 4 ELSE 3)
              /\ v[1] = "V2024_11_05" /\ v[2] = "V2025_03_26" /\ v[3] = "V2025_06_18"
              /\ out.arg = JBool("true") => v[4] = "Draft"
              /\ \A i \in 1..Len(v) : \A j \in 1..Len(v) :
                    i < j => ProtocolVersion_cmp(v[i], v[j]) = "Less"

\* C19 witness: supported_versions(true) was called and returned four
\* versions, the last of them Draft
C19_Witness ==
    /\ out.op = "versions" /\ out.arg = JBool("true")
    /\ Len(out.res.val) = 4 /\ out.res.val[4] = "Draft"

CustomSerialized ==
    /\ out.op = "serialize"
    /\ msg.kind \in {"Request", "Notification"}
    /\ msg.payload.tag = "Custom"

\* a Request or Notification with a Custom payload went through one
\* serialize-then-deserialize round trip
CustomRoundTrip ==
    /\ RoundTripDone
    /\ orig.kind \in {"Request", "Notification"}
    /\ orig.payload.tag = "Custom"

\* {"method": m, "params": v}
Nested(m, v) == Obj2("method", JStr(m), "params", v)

\* m is the fixed method of a shape of the vocabulary of (side, role)
IsVocabularyMethod(side, role, m) ==
    \E i \in 1..Len(Vocabulary(side, role)) : Vocabulary(side, role)[i].method = m

\* C21 (as claimed): for a Request or Notification whose payload is Custom(v),
\* serialization writes v's method string as the top-level method and the
\* whole of v as the top-level params, and deserializing that text yields a
\* Custom payload equal to {"method": m, "params": v}, so that each round
\* trip nests the custom value one level deeper.
C21_CustomNests ==
    /\ CustomSerialized =>
          /\ HasStr(msg.payload.body, "method")
          /\ wire.o["method"] = msg.payload.body.o["method"]
          /\ Get(wire, "params") = msg.payload.body
    /\ CustomRoundTrip =>
          /\ out.res.st = "Ok"
          /\ out.res.val.payload = Custom(Nested(orig.method, orig.payload.body))

\* C21 (amended): serialization of a Custom request or notification writes
\* v's method string as the top-level method and the whole of v as the
\* top-level params.  Deserializing that text resolves {"method": m,
\* "params": v} again: when m is no method of the vocabulary the payload is
\* Custom holding that object, so each round trip nests the value one level
\* deeper; when m is a vocabulary method the payload is either Custom holding
\* that object or the Known shape of that method.
C21_CustomNestsAmended ==
    /\ CustomSerialized =>
          /\ HasStr(msg.payload.body, "method")
          /\ wire.o["method"] = msg.payload.body.o["method"]
          /\ Get(wire, "params") = msg.payload.body
    /\ CustomRoundTrip =>
          /\ out.res.st = "Ok"
          /\ LET q == out.res.val.payload
                 nested == Nested(orig.method, orig.payload.body)
             IN  IF IsVocabularyMethod(orig.side, orig.kind, orig.method)
                 THEN \/ q = Custom(nested)
                      \/ /\ q.tag = "Known"
                         /\ ShapeMethod(orig.side, orig.kind, q.shape) = orig.method
                 ELSE q = Custom(nested)

\* C21 witness: the custom notification {"method": "my_custom_method"} went
\* through one round trip and was serialized again, with the value nested
\* twice under params
C21_Witness ==
    /\ CustomSerialized
    /\ out.trips = 1
    /\ msg.kind = "Notification"
    /\ Get(wire, "params") =
          Nested("my_custom_method", Obj1("method", JStr("my_custom_method")))
    /\ msg.payload.body.o["params"] = Obj1("method", JStr("my_custom_method"))

\* the role of the payload of an envelope of the given kind
RoleOfKind(kind) == IF kind = "Response" THEN "Result" ELSE kind

SpecificResults(side, raw) ==
    {i \in 1..Len(Vocabulary(side, "Result")) :
        /\ Vocabulary(side, "Result")[i].name # "Result"
        /\ Present(raw, Vocabulary(side, "Result")[i].req)
        /\ raw.o[Vocabulary(side, "Result")[i].req].t = Vocabulary(side, "Result")[i].ty}

\* what C23 requires of the payload p resolved from the result object raw
ResultResolvedAsClaimed(side, raw, p) ==
    /\ p.tag = "Known"
    /\ IF SpecificResults(side, raw) = {}
       THEN /\ p.shape = "Result"
            /\ p.body = raw
       ELSE /\ p.shape # "Result"
            /\ p.shape = Vocabulary(side, "Result")[Min(SpecificResults(side, raw))].name

WellFormedCall(v) ==
    /\ v.t = "obj"
    /\ DOMAIN v.o \subseteq {"id", "jsonrpc", "method", "params"}
    /\ Present(v, "jsonrpc") /\ v.o["jsonrpc"].t = "str"
    /\ Present(v, "method") /\ v.o["method"].t = "str"
    /\ Present(v, "id") => v.o["id"].t \in {"num", "str"}

\* the object the payload of a call is resolved from; missing params are null
CallObject(v) ==
    Obj2("method", v.o["method"], "params", IF Present(v, "params") THEN v.o["params"] ELSE JNull)

\* C24: deserialization of a Request or Notification envelope never fails
\* because of its payload: every object with only the keys id, jsonrpc,
\* method and params (no id for a Notification), an integer or string id and
\* string jsonrpc and method deserializes; the payload is Known when method
\* and params match a vocabulary shape and Custom otherwise, also when the
\* method is a vocabulary method whose params are missing or malformed.
C24_PayloadNeverFailsEnvelope ==
    (out.op = "deserialize" /\ WellFormedCall(out.arg)) =>
        /\ out.res.st = "Ok"
        /\ out.res.val.kind = (IF Present(out.arg, "id") THEN "Request" ELSE "Notification")
        /\ LET role == out.res.val.kind
               q == out.res.val.payload
               matching == {i \in 1..Len(Vocabulary(out.side, role)) :
                               MethodShapeAccepts(Vocabulary(out.side, role)[i], CallObject(out.arg))}
           IN  /\ q.tag = (IF matching = {} THEN "Custom" ELSE "Known")
               /\ q.tag = "Custom" => q.body = CallObject(out.arg)
               /\ q.tag = "Known" =>
                     ShapeMethod(out.side, role, q.shape) = out.arg.o["method"].s

\* C24 witness: the client side parsed a tools/call request without params;
\* the envelope was accepted and its payload is Custom
C24_Witness ==
    /\ out.op = "deserialize" /\ out.side = "Client"
    /\ WellFormedCall(out.arg)
    /\ Present(out.arg, "id")
    /\ out.arg.o["method"] = JStr("tools/call")
    /\ ~Present(out.arg, "params")
    /\ out.res.st = "Ok"
    /\ out.res.val.kind = "Request"
    /\ out.res.val.payload.tag = "Custom"

\* the predicates of an inspection that returned true, as kinds
TruePredicates(flags) ==
    {k \in MessageTypes :
        \/ k = "Request" /\ flags.is_request
        \/ k = "Response" /\ flags.is_response
        \/ k = "Notification" /\ flags.is_notification
        \/ k = "Error" /\ flags.is_error}

\* C25: for every ClientMessage, ServerMessage, MessageFromClient and
\* MessageFromServer value exactly one of is_request, is_response,
\* is_notification and is_error is true, and it is the one that corresponds
\* to message_type(); this also holds for an envelope that went through a
\* serialize-then-deserialize round trip, whose kind is the original one.
C25_ExactlyOnePredicate ==
    out.op = "inspect" =>
        /\ out.kind \in MessageTypes
        /\ TruePredicates(out.res.val) = {out.kind}
        /\ out.role = "envelopes" => out.kind = out.arg.kind
        /\ out.role = "messages" => out.kind = KindOfPayload(out.arg.mk)
        /\ (out.role = "envelopes" /\ orig # NoMsg) => out.kind = orig.kind

\* C25 witness: an Error envelope that went through a round trip was
\* inspected; is_error alone is true
C25_Witness ==
    /\ out.op = "inspect" /\ out.role = "envelopes"
    /\ orig # NoMsg /\ out.trips >= 1
    /\ out.kind = "Error"
    /\ out.res.val.is_error /\ ~out.res.val.is_response
    /\ ~out.res.val.is_request /\ ~out.res.val.is_notification

C27_PayloadVariantByKind ==
    (out.op = "deserialize_message" /\ out.arg # JInvalid) =>
        /\ Accepting(out.side, "Notification", out.arg) # {} =>
              /\ out.res.st = "Ok"
              /\ out.res.val.mk = "Notification"
              /\ out.res.val.payload.tag = "Known"
        /\ (SpecificResults(out.side, out.arg) # {} /\ ~Present(out.arg, "method")) =>
              /\ out.res.st = "Ok"
              /\ out.res.val.mk = "Result"
        /\ (RpcErrorAccepts(out.arg) /\ ~Present(out.arg, "method")) =>
              /\ out.res.st = "Ok"
              /\ out.res.val.mk = "Error"

\* the member of SdkErrorCodes that a constructor of SdkError is named after
MemberNamed(name) ==
    CASE name = "connection_closed" -> CONNECTION_CLOSED
      [] name = "request_timeout" -> REQUEST_TIMEOUT
      [] name = "session_not_found" -> SESSION_NOT_FOUND
      [] name = "invalid_request" -> INVALID_REQUEST
      [] name = "method_not_found" -> METHOD_NOT_FOUND
      [] name = "invalid_params" -> INVALID_PARAMS
      [] name = "internal_error" -> INTERNAL_ERROR
      [] name = "parse_error" -> PARSE_ERROR
      [] name = "resource_not_found" -> RESOURCE_NOT_FOUND
      [] name = "bad_request" -> BAD_REQUEST

\* C28 (as claimed): every named SdkError constructor returns an error whose
\* code is the numeric value of the catalog member it is named after and
\* whose message is the display text of that same member.
C28_SdkConstructorMatchesMember ==
    (out.op = "error" /\ out.role = "SdkError") =>
        /\ out.res.val.code = MemberNamed(out.kind)
        /\ out.res.val.message = SdkErrorCodes_to_string(MemberNamed(out.kind))

\* C29: in every Request and Notification envelope created by new /
\* from_message or obtained by deserialization, the method field of the
\* envelope equals the method of its payload: the fixed method string of the
\* Known shape, or the string under "method" in the Custom value.
C29_MethodMatchesPayload ==
    (/\ out.op \in {"build", "deserialize"}
     /\ out.res.st = "Ok"
     /\ out.res.val.kind \in {"Request", "Notification"}) =>
        LET e == out.res.val
        IN  /\ e.payload.tag = "Known" =>
                  e.method = ShapeNamed(e.side, e.kind, e.payload.shape).method
            /\ e.payload.tag = "Custom" =>
                  /\ Present(e.payload.body, "method")
                  /\ e.payload.body.o["method"] = JStr(e.method)
            /\ payload_method(e.side, e.kind, e.payload) = [st |-> "Ok", m |-> e.method]

\* C29 witness: from_message built a Notification envelope around the custom
\* value {"method": "my_custom_method"}, and the envelope carries that method
C29_Witness ==
    /\ out.op = "build" /\ out.res.st = "Ok"
    /\ out.res.val.kind = "Notification"
    /\ out.res.val.payload = Custom(Obj1("method", JStr("my_custom_method")))
    /\ out.res.val.method = "my_custom_method"

\* C30: starting from an envelope that from_message returned and applying
\* serialize-then-deserialize any number of times, every deserialization
\* succeeds and the envelope kind, the request id (value and Integer/String
\* variant) and the method string never change, for Known and Custom
\* payloads alike: no step other than dropping the envelope changes them.
C30_RoundTripsKeepIdentity ==
    [][(msg # NoMsg /\ out'.op # "init") =>
          /\ out'.op = "deserialize" => out'.res.st = "Ok"
          /\ msg' # NoMsg
          /\ msg'.kind = msg.kind
          /\ msg'.id = msg.id
          /\ msg'.method = msg.method
          /\ msg'.side = msg.side]_vars

\* C30 witness: a custom request built with the Integer id 1 came back from
\* its second round trip as a Request with the Integer id 1 and its method
C30_Witness ==
    /\ out.op = "deserialize" /\ out.trips = MaxTrips
    /\ orig # NoMsg
    /\ out.res.st = "Ok"
    /\ msg.kind = "Request"
    /\ msg.payload.tag = "Custom"
    /\ msg.id = IntId(1)
    /\ msg.method = "my_custom_method"

====
